---- MODULE Spec2Model ----
(***************************************************************************)
(* A model of the KnowledgeBank repository:                                *)
(*   - the regression notebook "Comparison of Shrinkage and Selection      *)
(*     Methods for Linear Regression" (setup cell, Linear Regression cell, *)
(*     Best Subset Regression cell and the library-estimator cells),       *)
(*   - the classifier notebook "Linear Classifiers: An Overview",          *)
(*   - the Docker notes (container lifecycle under the listed commands).   *)
(*                                                                         *)
(* Numbers are exact: a real number is a reduced fraction [num, den].      *)
(* Ordinary least squares is solved exactly by Cramer's rule on the normal *)
(* equations, so fitted coefficients, predictions, MAE and RSS are the     *)
(* values the library computes up to floating-point rounding.              *)
(***************************************************************************)
EXTENDS Integers, Sequences, FiniteSets, TLC

VARIABLES
    prostate_data,   \* per run: the table stored in the file "prostate_data"
    ns,              \* per run: the regression notebook's kernel namespace
    pc,              \* regression notebook: the cell (or loop) to execute next
    spam_txt,        \* the table stored in the file "spam.txt"
    cls,             \* the classifier notebook's kernel namespace
    cpc,             \* classifier notebook: the cell to execute next
    containers,      \* Docker: container id -> container record
    terminal         \* Docker: "open" or "closed" (the terminal docker run was typed in)

vars == <<prostate_data, ns, pc, spam_txt, cls, cpc, containers, terminal>>

(***************************************************************************)
(* Bounds of the model.                                                    *)
(***************************************************************************)
MaxP == 3          \* largest number of feature columns in prostate_data
MaxY == 1          \* largest lpsa value of a test row
MaxRows == 4       \* largest number of rows of a file in the split specifications
MaxContainers == 3 \* largest number of containers that exist at one time
MaxCellRuns == 2   \* largest number of model cells executed after a setup cell

\* Two executions of the regression notebook, on files that differ at most
\* in their test rows.
Runs == {1, 2}

(***************************************************************************)
(* Arithmetic.                                                             *)
(***************************************************************************)
Abs(x) == IF x < 0 THEN -x ELSE x

RECURSIVE Gcd(_, _)
Gcd(a, b) == IF b = 0 THEN a ELSE Gcd(b, a % b)

\* The fraction n/d (d # 0) in lowest terms with a positive denominator.
Rat(n, d) ==
    LET g == Gcd(Abs(n), Abs(d))
        s == IF d < 0 THEN -1 ELSE 1
    IN  [num |-> (s * n) \div g, den |-> (s * d) \div g]

RatLeq(a, b) == a.num * b.den <= b.num * a.den
RatLess(a, b) == a.num * b.den < b.num * a.den

RECURSIVE Pow2(_)
Pow2(n) == IF n = 0 THEN 1 ELSE 2 * Pow2(n - 1)

RatAdd(a, b) == Rat(a.num * b.den + b.num * a.den, a.den * b.den)
RatSub(a, b) == Rat(a.num * b.den - b.num * a.den, a.den * b.den)
RatAbs(a) == [num |-> Abs(a.num), den |-> a.den]
RatSquare(a) == [num |-> a.num * a.num, den |-> a.den * a.den]
IntRat(i) == [num |-> i, den |-> 1]

RECURSIVE RatSum(_)
RatSum(s) == IF s = <<>> THEN IntRat(0) ELSE RatAdd(Head(s), RatSum(Tail(s)))

\* np.mean of a non-empty array.
RatMean(s) == LET t == RatSum(s) IN Rat(t.num, t.den * Len(s))

\* The elements of a finite set of integers in increasing order.
RECURSIVE SetToSeq(_)
SetToSeq(S) ==
    IF S = {} THEN <<>>
    ELSE LET m == CHOOSE x \in S : \A y \in S : x <= y
         IN  <<m>> \o SetToSeq(S \ {m})

RECURSIVE SumSeq(_)
SumSeq(s) == IF s = <<>> THEN 0 ELSE Head(s) + SumSeq(Tail(s))

\* np.round(x, 3): x rounded to three decimals, half to even; the result is
\* the number of thousandths.
Round3(x) ==
    LET n2 == 2000 * x.num
        d2 == 2 * x.den
        fl == (n2 + x.den) \div d2          \* floor(1000 x + 1/2)
        tie == (n2 + x.den) % d2 = 0
    IN  IF tie /\ fl % 2 # 0 THEN fl - 1 ELSE fl

(***************************************************************************)
(* Data frames (pandas).  A frame has an ordered list of column names and  *)
(* a sequence of rows; each row carries its index label and its cells.     *)
(***************************************************************************)
AllFeatureNames == <<"lcavol", "lweight", "age", "lbph">>
FeatureNames(p) == SubSeq(AllFeatureNames, 1, p)
Columns(p) == FeatureNames(p) \o <<"lpsa", "train">>

Range(s) == {s[i] : i \in DOMAIN s}

\* pd.read_csv: the rows of the file in file order, labelled 0, 1, 2, ...
ReadCsv(file) ==
    [columns |-> file.columns,
     rows |-> [i \in DOMAIN file.rows |-> [label |-> i - 1, cells |-> file.rows[i]]]]

\* A comparison that takes every row not flagged for the test set as a
\* training row.
TestRowLoose(row, col, v) ==
    IF v = "T" THEN row.cells[col] # "F" ELSE row.cells[col] = v

\* df[df.col == v]: the rows whose cell in column col equals v, labels kept.
TestRow(row, col, v) == row.cells[col] = v
BoolIndex(df, col, v) ==
    [columns |-> df.columns,
     rows |-> SelectSeq(df.rows, LAMBDA row : TestRow(row, col, v))]

\* df.drop(cols, axis=1): the frame without the columns cols.
Kept(columns, cols) == SelectSeq(columns, LAMBDA c : c \notin cols)
Drop(df, cols) ==
    LET keep == Kept(df.columns, cols)
    IN  [columns |-> keep,
         rows |-> [i \in DOMAIN df.rows |->
                     [label |-> df.rows[i].label,
                      cells |-> [c \in Range(keep) |-> df.rows[i].cells[c]]]]]

\* np.array(df): the cells row by row in column order, labels and names lost.
ToArray(df) ==
    [i \in DOMAIN df.rows |->
        [j \in DOMAIN df.columns |-> df.rows[i].cells[df.columns[j]]]]

\* np.array(df[col]): one column's cells in row order.
ColumnArray(df, col) == [i \in DOMAIN df.rows |-> df.rows[i].cells[col]]

\* df.head(): the first five rows.
HeadRows(df) == SubSeq(df.rows, 1, IF Len(df.rows) < 5 THEN Len(df.rows) ELSE 5)

(***************************************************************************)
(* The regression notebook's namespace.  "defined" holds the names bound   *)
(* so far; a name outside it would raise NameError when read.              *)
(***************************************************************************)
EmptyFrame == [columns |-> <<>>, rows |-> <<>>]
NoModel == [den |-> 1, num |-> <<>>]
Zero == [num |-> 0, den |-> 1]

FreshNamespace ==
    [defined |-> {},
     data |-> EmptyFrame,
     X_train |-> <<>>, y_train |-> <<>>, X_test |-> <<>>, y_test |-> <<>>,
     linreg_model |-> NoModel, linreg_prediction |-> <<>>,
     linreg_mae |-> Zero, linreg_coefs |-> <<>>,
     results |-> EmptyFrame, k |-> 0, subset |-> <<>>,
     best_subset_model |-> NoModel, best_subset_coefs |-> <<>>,
     fitted |-> {},
     printed |-> <<>>]

\* The setup cell: load the file and split it by the train flag.
TrainFlag == "T"
TestFlag == "F"
DroppedColumnsTrainOnly == {"train"}
DroppedColumns == {"lpsa", "train"}
SetupCell(n, file) ==
    LET d == ReadCsv(file)
    IN  [n EXCEPT
          !.defined = @ \cup {"data", "y_train", "y_test", "X_train", "X_test"},
          !.data = d,
          !.y_train = ColumnArray(BoolIndex(d, "train", TrainFlag), "lpsa"),
          !.y_test = ColumnArray(BoolIndex(d, "train", TestFlag), "lpsa"),
          !.X_train = ToArray(Drop(BoolIndex(d, "train", TrainFlag), DroppedColumns)),
          !.X_test = ToArray(Drop(BoolIndex(d, "train", TestFlag), DroppedColumns)),
          !.printed = Append(@, [what |-> "data.head", value |-> Len(HeadRows(d))])]

(***************************************************************************)
(* Ordinary least squares: LinearRegression(normalize=True).fit / predict. *)
(* The fit solves the normal equations of the design [1 X] by Cramer's     *)
(* rule; normalising the columns does not change the least-squares         *)
(* solution reported in the original scale.  A fitted model is             *)
(* [den, num]: intercept_ = num[1]/den and coef_[j] = num[j+1]/den.        *)
(***************************************************************************)
Minor(M, j) ==
    [i \in 1..(Len(M) - 1) |->
        [c \in 1..(Len(M) - 1) |-> M[i + 1][IF c < j THEN c ELSE c + 1]]]

RECURSIVE Det(_)
Det(M) ==
    IF Len(M) = 0 THEN 1
    ELSE IF Len(M) = 1 THEN M[1][1]
    ELSE SumSeq([j \in 1..Len(M) |->
                   IF M[1][j] = 0 THEN 0
                   ELSE (IF j % 2 = 1 THEN 1 ELSE -1) * M[1][j] * Det(Minor(M, j))])

Design(X) == [i \in DOMAIN X |-> <<1>> \o X[i]]

Gram(A, m) ==
    [a \in 1..m |-> [b \in 1..m |-> SumSeq([i \in DOMAIN A |-> A[i][a] * A[i][b]])]]

Moment(A, y, m) == [a \in 1..m |-> SumSeq([i \in DOMAIN A |-> A[i][a] * y[i]])]

ReplaceColumn(G, j, v) ==
    [a \in DOMAIN G |-> [b \in DOMAIN G |-> IF b = j THEN v[a] ELSE G[a][b]]]

Fit(X, y) ==
    LET A == Design(X)
        m == IF X = <<>> THEN 1 ELSE Len(X[1]) + 1
        G == Gram(A, m)
        v == Moment(A, y, m)
    IN  [den |-> Det(G), num |-> [j \in 1..m |-> Det(ReplaceColumn(G, j, v))]]

Predict(model, X) ==
    [i \in DOMAIN X |->
        Rat(model.num[1]
              + SumSeq([j \in DOMAIN X[i] |-> model.num[j + 1] * X[i][j]]),
            model.den)]

\* np.mean(np.abs(y - prediction))
MeanAbsError(y, prediction) ==
    RatMean([i \in DOMAIN y |-> RatAbs(RatSub(IntRat(y[i]), prediction[i]))])

\* The residual sum of squares of a fitted model on (X, y).
RSS(model, X, y) ==
    LET pr == Predict(model, X)
    IN  RatSum([i \in DOMAIN y |-> RatSquare(RatSub(IntRat(y[i]), pr[i]))])

\* X[:, subset] for a list of 0-based column indices.
SelectColumns(X, subset) ==
    [i \in DOMAIN X |-> [j \in DOMAIN subset |-> X[i][subset[j] + 1]]]

\* np.round(np.concatenate((model.intercept_, model.coef_)), 3)
RoundedCoefs(model) == [j \in DOMAIN model.num |-> Round3(Rat(model.num[j], model.den))]

\* dict(zip(names, values)): pairs up to the shorter of the two.
Zip(names, values) ==
    [i \in 1..(IF Len(names) < Len(values) THEN Len(names) ELSE Len(values)) |->
        <<names[i], values[i]>>]

\* ['Intercept'] + data.columns.tolist()[:-1]
CoefNames(df) == <<"Intercept">> \o SubSeq(df.columns, 1, Len(df.columns) - 1)

(***************************************************************************)
(* The Linear Regression cell.                                             *)
(***************************************************************************)
LinearRegressionCell(n) ==
    LET model == Fit(n.X_train, n.y_train)
        prediction == Predict(model, n.X_test)
        mae == MeanAbsError(n.y_test, prediction)
    IN  [n EXCEPT
          !.defined = @ \cup {"linreg_model", "linreg_prediction", "linreg_mae",
                              "linreg_coefs"},
          !.linreg_model = model,
          !.linreg_prediction = prediction,
          !.linreg_mae = mae,
          !.linreg_coefs = Zip(CoefNames(n.data), RoundedCoefs(model)),
          !.printed = Append(@, [what |-> "Linear Regression MAE",
                                 value |-> Round3(mae)])]

(***************************************************************************)
(* The Best Subset Regression cell.                                        *)
(***************************************************************************)
\* X_train.shape[1]
NumFeatures(n) == IF n.X_train = <<>> THEN 0 ELSE Len(n.X_train[1])

\* itertools.combinations(range(n), r): the first tuple, and the tuple after
\* a given one (<<>> when the iterator is exhausted).
FirstCombination(r) == [j \in 1..r |-> j - 1]

\* A combinations iterator that only ever advances its last index.
NextCombinationLastOnly(indices, n) ==
    LET r == Len(indices)
    IN  IF indices[r] = (r - 1) + n - r THEN <<>>
        ELSE [j \in 1..r |-> IF j < r THEN indices[j] ELSE indices[r] + 1]

NextCombination(indices, n) ==
    LET r == Len(indices)
        movable == {i \in 1..r : indices[i] # (i - 1) + n - r}
    IN  IF movable = {} THEN <<>>
        ELSE LET i == CHOOSE m \in movable : \A o \in movable : o <= m
             IN  [j \in 1..r |-> IF j < i THEN indices[j] ELSE indices[i] + 1 + (j - i)]

\* pd.DataFrame(columns=['num_features', 'features', 'MAE'])
ResultColumns == <<"num_features", "features", "MAE">>
NewResults == [columns |-> ResultColumns, rows |-> <<>>]

\* pd.DataFrame([{...}]): a frame of one row, labelled 0.
OneRowFrame(cells) == [columns |-> ResultColumns, rows |-> <<[label |-> 0, cells |-> cells]>>]

\* df.append(other): the rows of other after the rows of df, labels kept.
AppendFrame(df, other) == [columns |-> df.columns, rows |-> df.rows \o other.rows]

\* df.sort_values(col): rows in ascending order of col, labels kept.  Rows
\* with equal keys keep their relative order (numpy sorts arrays of at most
\* 16 elements by insertion).
RECURSIVE InsertRow(_, _, _)
InsertRow(sorted, row, col) ==
    IF sorted = <<>> THEN <<row>>
    ELSE IF RatLess(row.cells[col], Head(sorted).cells[col]) THEN <<row>> \o sorted
    ELSE <<Head(sorted)>> \o InsertRow(Tail(sorted), row, col)

RECURSIVE SortRows(_, _, _)
SortRows(sorted, rest, col) ==
    IF rest = <<>> THEN sorted
    ELSE SortRows(InsertRow(sorted, Head(rest), col), Tail(rest), col)

\* A sort in descending order (ascending=False).
SortValuesDescending(df, col) ==
    LET up == SortRows(<<>>, df.rows, col)
    IN  [columns |-> df.columns,
         rows |-> [i \in DOMAIN up |-> up[Len(up) + 1 - i]]]

SortValues(df, col) == [columns |-> df.columns, rows |-> SortRows(<<>>, df.rows, col)]

\* A reset_index that stores the old labels but leaves the rows' labels alone.
ResetIndexKeepLabels(df) ==
    [columns |-> <<"index">> \o df.columns,
     rows |-> [i \in DOMAIN df.rows |->
                 [label |-> df.rows[i].label,
                  cells |-> ("index" :> df.rows[i].label) @@ df.rows[i].cells]]]

\* df.reset_index(): the old labels become the column 'index' and the rows
\* are labelled 0, 1, 2, ... in their current order.
ResetIndex(df) ==
    [columns |-> <<"index">> \o df.columns,
     rows |-> [i \in DOMAIN df.rows |->
                 [label |-> i - 1,
                  cells |-> ("index" :> df.rows[i].label) @@ df.rows[i].cells]]]

\* df[col][label]: the cells of column col in the rows labelled label (a
\* scalar when exactly one row carries the label).
GetItem(df, col, label) ==
    LET hit == SelectSeq(df.rows, LAMBDA row : row.label = label)
    IN  [i \in DOMAIN hit |-> hit[i].cells[col]]

\* A start of the cell that keeps the results of an earlier execution.
BestSubsetStartKeepsResults(n) ==
    [n EXCEPT
      !.defined = @ \cup {"results"} \cup (IF NumFeatures(n) >= 1 THEN {"k", "subset"} ELSE {}),
      !.results = IF "results" \in n.defined THEN @ ELSE NewResults,
      !.k = IF NumFeatures(n) >= 1 THEN 1 ELSE @,
      !.subset = IF NumFeatures(n) >= 1 THEN FirstCombination(1) ELSE @]

\* results = pd.DataFrame(...), and the first evaluation of both for-headers.
BestSubsetStart(n) ==
    [n EXCEPT
      !.defined = @ \cup {"results"} \cup (IF NumFeatures(n) >= 1 THEN {"k", "subset"} ELSE {}),
      !.results = NewResults,
      !.k = IF NumFeatures(n) >= 1 THEN 1 ELSE @,
      !.subset = IF NumFeatures(n) >= 1 THEN FirstCombination(1) ELSE @]

\* An end of the loops at the end of the current size, whichever it is.
LastIterationOfAnySize(n) ==
    NextCombination(n.subset, NumFeatures(n)) = <<>>

\* Whether the current (k, subset) is the last pair the two loops visit.
LastIteration(n) ==
    n.k = NumFeatures(n) /\ NextCombination(n.subset, NumFeatures(n)) = <<>>

\* The MAE the loop body records for the current subset.
SubsetScore(n, subset) ==
    LET model == Fit(SelectColumns(n.X_train, subset), n.y_train)
        prediction == Predict(model, SelectColumns(n.X_test, subset))
    IN  [model |-> model, prediction |-> prediction,
         mae |-> MeanAbsError(n.y_test, prediction)]

\* One execution of the loop body, and the advance of the iterators.
BestSubsetBody(n) ==
    LET sc == SubsetScore(n, n.subset)
        row == [num_features |-> n.k, features |-> n.subset, MAE |-> sc.mae]
        nxt == NextCombination(n.subset, NumFeatures(n))
    IN  [n EXCEPT
          !.defined = @ \cup {"linreg_model", "linreg_prediction", "linreg_mae"},
          !.linreg_model = sc.model,
          !.linreg_prediction = sc.prediction,
          !.linreg_mae = sc.mae,
          !.results = AppendFrame(@, OneRowFrame(row)),
          !.k = IF nxt = <<>> /\ n.k < NumFeatures(n) THEN n.k + 1 ELSE @,
          !.subset = IF nxt # <<>> THEN nxt
                     ELSE IF n.k < NumFeatures(n) THEN FirstCombination(n.k + 1)
                     ELSE @]

\* The rest of the cell: sort, inspect, fit the best model, print.
SortedResults(df) == ResetIndex(SortValues(df, "MAE"))

BestFeatures(df) == GetItem(df, "features", 0)[1]

\* A last step that fits the selected subset to the test rows.
BestSubsetFinishOnTest(n) ==
    LET res == SortedResults(n.results)
        model == Fit(SelectColumns(n.X_test, BestFeatures(res)), n.y_test)
    IN  [n EXCEPT
          !.defined = @ \cup {"best_subset_model", "best_subset_coefs"},
          !.results = res,
          !.best_subset_model = model,
          !.best_subset_coefs = Zip(CoefNames(n.data), RoundedCoefs(model)),
          !.printed = @ \o <<[what |-> "results.head", value |-> Len(HeadRows(res))],
                              [what |-> "Best Subset Regression MAE",
                               value |-> Round3(GetItem(res, "MAE", 0)[1])]>>]

BestSubsetFinish(n) ==
    LET res == SortedResults(n.results)
        model == Fit(SelectColumns(n.X_train, BestFeatures(res)), n.y_train)
    IN  [n EXCEPT
          !.defined = @ \cup {"best_subset_model", "best_subset_coefs"},
          !.results = res,
          !.best_subset_model = model,
          !.best_subset_coefs = Zip(CoefNames(n.data), RoundedCoefs(model)),
          !.printed = @ \o <<[what |-> "results.head", value |-> Len(HeadRows(res))],
                              [what |-> "Best Subset Regression MAE",
                               value |-> Round3(GetItem(res, "MAE", 0)[1])]>>]

(***************************************************************************)
(* The cells that hand the training set to a library estimator with built- *)
(* in model selection (RidgeCV, LassoCV, ElasticNetCV, LarsCV, and         *)
(* GridSearchCV over PCA + least squares and over PLS).  The estimators    *)
(* are deterministic functions of their arguments; a fitted model is       *)
(* recorded as the arguments it was computed from, and its score as the    *)
(* arguments of predict and of the MAE.                                    *)
(***************************************************************************)
LibraryFit(method, X, y) == [method |-> method, fit_X |-> X, fit_y |-> y]

LibraryCell(n, method) ==
    [n EXCEPT
      !.defined = @ \cup {method},
      !.fitted = @ \cup {[model |-> LibraryFit(method, n.X_train, n.y_train),
                          predict_X |-> n.X_test, mae_y |-> n.y_test]},
      !.printed = Append(@, [what |-> method, value |-> 0])]

RidgeCell(n) == LibraryCell(n, "ridge")
LassoCell(n) == LibraryCell(n, "lasso")
ElasticNetCell(n) == LibraryCell(n, "elastic_net")
LarCell(n) == LibraryCell(n, "LAR")
PcaRegCell(n) == LibraryCell(n, "pcareg")
PlsCell(n) == LibraryCell(n, "pls")

(***************************************************************************)
(* The files the regression notebook is run on.                            *)
(***************************************************************************)
NoFile == [columns |-> <<>>, rows |-> <<>>]

\* One line of the file: p feature cells, the target and the train flag.
RowCells(p, x, y, flag) ==
    [col \in Range(Columns(p)) |->
        IF col = "lpsa" THEN y
        ELSE IF col = "train" THEN flag
        ELSE x[CHOOSE j \in 1..p : AllFeatureNames[j] = col]]

Bit(r, c) == (r \div Pow2(c - 1)) % 2
Bits(p, r) == [c \in 1..p |-> Bit(r, c)]

\* A file with the 2^p training rows of the full factorial design (so the
\* design [1 X] of every subset has full column rank and the least-squares
\* solution is unique), whose
\* target is feature s with the target of row flip inverted, and two test
\* rows with targets ty[1] and ty[2]; test rows are interleaved with the
\* training rows.
ProstateFile(p, s, flip, ty) ==
    LET trainRow(r) == RowCells(p, Bits(p, r), (Bit(r, s) + (IF r = flip THEN 1 ELSE 0)) % 2, "T")
        test1 == RowCells(p, Bits(p, 1), ty[1], "F")
        test2 == RowCells(p, Bits(p, Pow2(p) - 2), ty[2], "F")
    IN  [columns |-> Columns(p),
         rows |-> <<trainRow(0), test1>>
                  \o [r \in 1..(Pow2(p) - 1) |-> trainRow(r)]
                  \o <<test2>>]

\* A file of rows with pairwise different cells and any flags, for the split.
SplitFile(p, flags) ==
    [columns |-> Columns(p),
     rows |-> [i \in DOMAIN flags |->
                 RowCells(p, [c \in 1..p |-> 10 * i + c], 100 + i, flags[i])]]

Flags == {"T", "F", "U"}

(***************************************************************************)
(* The other two systems at rest.                                          *)
(***************************************************************************)
FreshClassifier ==
    [defined |-> {}, spam_data |-> EmptyFrame,
     X_train |-> EmptyFrame, X_test |-> EmptyFrame,
     y_train |-> <<>>, y_test |-> <<>>,
     fitted |-> {}, printed |-> <<>>]

IdleRegression ==
    /\ prostate_data = [r \in Runs |-> NoFile]
    /\ ns = [r \in Runs |-> FreshNamespace]
    /\ pc = "off"

IdleClassifier ==
    /\ spam_txt = NoFile
    /\ cls = FreshClassifier
    /\ cpc = "off"

IdleDocker ==
    /\ containers = {}
    /\ terminal = "open"

(***************************************************************************)
(* The regression notebook, its cells executed in file order.  Both runs   *)
(* execute the same cell in the same step.                                 *)
(***************************************************************************)
InitRegression ==
    /\ \E p \in 1..MaxP : \E s \in 1..p : \E flip \in 0..p :
       \E ty \in [1..2 -> 0..MaxY] : \E y2 \in 0..MaxY :
          prostate_data = [r \in Runs |->
              IF r = 1 THEN ProstateFile(p, s, flip, ty)
              ELSE ProstateFile(p, s, flip, <<ty[1], y2>>)]
    /\ ns = [r \in Runs |-> FreshNamespace]
    /\ pc = "setup"
    /\ IdleClassifier
    /\ IdleDocker

Others == <<spam_txt, cls, cpc, containers, terminal>>

RunCell(from, to, result) ==
    /\ pc = from
    /\ ns' = result
    /\ pc' = to
    /\ UNCHANGED <<prostate_data, Others>>

Setup ==
    /\ pc = "setup"
    /\ ns' = [r \in Runs |-> SetupCell(ns[r], prostate_data[r])]
    /\ pc' = "linreg"
    /\ UNCHANGED <<prostate_data, Others>>

LinearRegression == RunCell("linreg", "bss_start", [r \in Runs |-> LinearRegressionCell(ns[r])])

BestSubsetEnter ==
    /\ pc = "bss_start"
    /\ ns' = [r \in Runs |-> BestSubsetStart(ns[r])]
    /\ pc' = IF NumFeatures(ns[1]) >= 1 THEN "bss_loop" ELSE "bss_finish"
    /\ UNCHANGED <<prostate_data, Others>>

BestSubsetIterate ==
    /\ pc = "bss_loop"
    /\ ns' = [r \in Runs |-> BestSubsetBody(ns[r])]
    /\ pc' = IF LastIteration(ns[1]) THEN "bss_finish" ELSE "bss_loop"
    /\ UNCHANGED <<prostate_data, Others>>

BestSubsetSelect == RunCell("bss_finish", "ridge", [r \in Runs |-> BestSubsetFinish(ns[r])])

Ridge == RunCell("ridge", "lasso", [r \in Runs |-> RidgeCell(ns[r])])
Lasso == RunCell("lasso", "elastic_net", [r \in Runs |-> LassoCell(ns[r])])
ElasticNet == RunCell("elastic_net", "LAR", [r \in Runs |-> ElasticNetCell(ns[r])])
Lar == RunCell("LAR", "pcareg", [r \in Runs |-> LarCell(ns[r])])
PcaReg == RunCell("pcareg", "pls", [r \in Runs |-> PcaRegCell(ns[r])])
Pls == RunCell("pls", "done", [r \in Runs |-> PlsCell(ns[r])])

Next ==
    \/ Setup
    \/ LinearRegression
    \/ BestSubsetEnter
    \/ BestSubsetIterate
    \/ BestSubsetSelect
    \/ Ridge
    \/ Lasso
    \/ ElasticNet
    \/ Lar
    \/ PcaReg
    \/ Pls

Spec == InitRegression /\ [][Next]_vars

(***************************************************************************)
(* The setup cell alone, on files with any flags.                          *)
(***************************************************************************)
InitSplit ==
    /\ \E p \in 1..MaxP : \E len \in 0..MaxRows : \E flags \in [1..len -> Flags] :
          prostate_data = [r \in Runs |-> SplitFile(p, flags)]
    /\ ns = [r \in Runs |-> FreshNamespace]
    /\ pc = "setup"
    /\ IdleClassifier
    /\ IdleDocker

NextSplit == Setup

SpecSplit == InitSplit /\ [][NextSplit]_vars

(***************************************************************************)
(* The classifier notebook.                                                *)
(***************************************************************************)
\* spam.txt has no header line: pd.read_csv(..., header=None) names the
\* columns 0, 1, 2, ...; the last column is the spam flag.
SpamColumns == <<0, 1, 2>>

SpamFile(len) ==
    [columns |-> SpamColumns,
     rows |-> [i \in 1..len |->
                 [c \in Range(SpamColumns) |->
                     IF c = SpamColumns[Len(SpamColumns)] THEN i % 2 ELSE 10 * i + c]]]

\* df.iloc[:, :-1]: every column but the last.
AllButLast(df) == Drop(df, {df.columns[Len(df.columns)]})

\* df.iloc[:, -1]: the last column, a series of labelled values.
LastColumn(df) ==
    [i \in DOMAIN df.rows |->
        [label |-> df.rows[i].label, value |-> df.rows[i].cells[df.columns[Len(df.columns)]]]]

\* df.iloc[positions] (0-based positions are the entries of a permutation
\* of 1..n, less one).
TakeRows(rows, positions) == [j \in DOMAIN positions |-> rows[positions[j]]]

\* train_test_split(..., test_size=0.2): n_test = ceil(0.2 * n_samples) and
\* n_train = n_samples - n_test.
NumTest(n) == (n + 4) \div 5
NumTrain(n) == n - NumTest(n)

\* The shuffled positions that go to the test set and to the training set.
TestIndices(perm) == SubSeq(perm, 1, NumTest(Len(perm)))

\* A split that takes the training positions from the start of the permutation.
TrainIndicesFromStart(perm) == SubSeq(perm, 1, NumTrain(Len(perm)))

TrainIndices(perm) == SubSeq(perm, NumTest(Len(perm)) + 1, NumTest(Len(perm)) + NumTrain(Len(perm)))

\* The setup cell; perm is the permutation drawn by RandomState(42).
ClassifierSetupCell(c, file, perm) ==
    LET d == ReadCsv(file)
        X == AllButLast(d)
        y == LastColumn(d)
    IN  [c EXCEPT
          !.defined = @ \cup {"spam_data", "X_train", "X_test", "y_train", "y_test"},
          !.spam_data = d,
          !.X_train = [columns |-> X.columns, rows |-> TakeRows(X.rows, TrainIndices(perm))],
          !.X_test = [columns |-> X.columns, rows |-> TakeRows(X.rows, TestIndices(perm))],
          !.y_train = TakeRows(y, TrainIndices(perm)),
          !.y_test = TakeRows(y, TestIndices(perm))]

\* How LinearDiscriminantAnalysis obtains its covariance shrinkage from the
\* constructor argument: 'auto' is the closed-form Ledoit-Wolf estimate, a
\* number is used as given; no candidate values are cross-validated unless
\* the estimator is wrapped in a search.
ShrinkageRule(shrinkage) ==
    IF shrinkage = "auto" THEN [rule |-> "ledoit_wolf", candidates |-> {}]
    ELSE IF shrinkage = "none" THEN [rule |-> "none", candidates |-> {}]
    ELSE [rule |-> "fixed", candidates |-> {}]

\* model.fit(X_train, y_train).predict(X_test); accuracy_score(y_test, preds)
ClassifierCell(c, method, estimator, solver, shrinkage) ==
    [c EXCEPT
      !.defined = @ \cup {method},
      !.fitted = @ \cup {[method |-> method, estimator |-> estimator, solver |-> solver,
                          shrinkage |-> ShrinkageRule(shrinkage),
                          fit_X |-> c.X_train, fit_y |-> c.y_train,
                          predict_X |-> c.X_test, score_y |-> c.y_test]},
      !.printed = Append(@, method)]

LdaCell(c) == ClassifierCell(c, "lda", "LinearDiscriminantAnalysis", "svd", "none")
QdaCell(c) == ClassifierCell(c, "qda", "QuadraticDiscriminantAnalysis", "none", "none")
RdaCell(c) == ClassifierCell(c, "rda", "LinearDiscriminantAnalysis", "lsqr", "auto")
LogRegCell(c) == ClassifierCell(c, "logreg", "LogisticRegression", "none", "none")

InitClassifier ==
    /\ \E len \in 2..(MaxRows + 1) : spam_txt = SpamFile(len)
    /\ cls = FreshClassifier
    /\ cpc = "setup"
    /\ IdleRegression
    /\ IdleDocker

NotClassifier == <<prostate_data, ns, pc, containers, terminal>>

ClassifierSetup ==
    /\ cpc = "setup"
    /\ \E perm \in Permutations(DOMAIN spam_txt.rows) :
          cls' = ClassifierSetupCell(cls, spam_txt, perm)
    /\ cpc' = "lda"
    /\ UNCHANGED <<spam_txt, NotClassifier>>

RunClassifierCell(from, to, result) ==
    /\ cpc = from
    /\ cls' = result
    /\ cpc' = to
    /\ UNCHANGED <<spam_txt, NotClassifier>>

Lda == RunClassifierCell("lda", "qda", LdaCell(cls))
Qda == RunClassifierCell("qda", "rda", QdaCell(cls))
Rda == RunClassifierCell("rda", "logreg", RdaCell(cls))
LogReg == RunClassifierCell("logreg", "done", LogRegCell(cls))

NextClassifier ==
    \/ ClassifierSetup
    \/ Lda
    \/ Qda
    \/ Rda
    \/ LogReg

SpecClassifier == InitClassifier /\ [][NextClassifier]_vars

(***************************************************************************)
(* The notebooks with their cells executed in any order: once the setup    *)
(* cell has run the kernel is idle, and the user executes any model cell,  *)
(* any number of times (MaxCellRuns at most).  The kernel runs one cell at *)
(* a time, to its end.  One of the two notebooks is open.                  *)
(***************************************************************************)
\* The model cells executed so far: each prints one line of metrics.
CellsRun(n) ==
    Cardinality({i \in DOMAIN n.printed :
                    n.printed[i].what \notin {"data.head", "results.head"}})

InitRegressionAnyOrder ==
    /\ \E p \in 1..MaxP : \E y \in 0..MaxY :
          prostate_data = [r \in Runs |->
              IF r = 1 THEN ProstateFile(p, p, 1, <<y, MaxY - y>>)
              ELSE ProstateFile(p, 1, 0, <<MaxY - y, y>>)]
    /\ ns = [r \in Runs |-> FreshNamespace]
    /\ pc = "setup"
    /\ IdleClassifier
    /\ IdleDocker

InitClassifierAnyOrder ==
    /\ \E len \in 2..(MaxRows - 1) : spam_txt = SpamFile(len)
    /\ cls = FreshClassifier
    /\ cpc = "setup"
    /\ IdleRegression
    /\ IdleDocker

InitAnyOrder == InitRegressionAnyOrder \/ InitClassifierAnyOrder

ExecuteSetup ==
    /\ pc = "setup"
    /\ ns' = [r \in Runs |-> SetupCell(ns[r], prostate_data[r])]
    /\ pc' = "idle"
    /\ UNCHANGED <<prostate_data, Others>>

\* A model cell that runs in one step, started while the kernel is idle.
Execute(result) ==
    /\ pc = "idle"
    /\ CellsRun(ns[1]) < MaxCellRuns
    /\ ns' = result
    /\ pc' = "idle"
    /\ UNCHANGED <<prostate_data, Others>>

ExecuteLinearRegression == Execute([r \in Runs |-> LinearRegressionCell(ns[r])])

ExecuteBestSubsetEnter ==
    /\ pc = "idle"
    /\ CellsRun(ns[1]) < MaxCellRuns
    /\ ns' = [r \in Runs |-> BestSubsetStart(ns[r])]
    /\ pc' = IF NumFeatures(ns[1]) >= 1 THEN "bss_loop" ELSE "bss_finish"
    /\ UNCHANGED <<prostate_data, Others>>

ExecuteBestSubsetSelect ==
    /\ pc = "bss_finish"
    /\ ns' = [r \in Runs |-> BestSubsetFinish(ns[r])]
    /\ pc' = "idle"
    /\ UNCHANGED <<prostate_data, Others>>

ExecuteRidge == Execute([r \in Runs |-> RidgeCell(ns[r])])
ExecuteLasso == Execute([r \in Runs |-> LassoCell(ns[r])])
ExecuteElasticNet == Execute([r \in Runs |-> ElasticNetCell(ns[r])])
ExecuteLar == Execute([r \in Runs |-> LarCell(ns[r])])
ExecutePcaReg == Execute([r \in Runs |-> PcaRegCell(ns[r])])
ExecutePls == Execute([r \in Runs |-> PlsCell(ns[r])])

ExecuteClassifierSetup ==
    /\ cpc = "setup"
    /\ \E perm \in Permutations(DOMAIN spam_txt.rows) :
          cls' = ClassifierSetupCell(cls, spam_txt, perm)
    /\ cpc' = "idle"
    /\ UNCHANGED <<spam_txt, NotClassifier>>

ExecuteClassifier(result) ==
    /\ cpc = "idle"
    /\ Len(cls.printed) < MaxCellRuns
    /\ cls' = result
    /\ cpc' = "idle"
    /\ UNCHANGED <<spam_txt, NotClassifier>>

ExecuteLda == ExecuteClassifier(LdaCell(cls))
ExecuteQda == ExecuteClassifier(QdaCell(cls))
ExecuteRda == ExecuteClassifier(RdaCell(cls))
ExecuteLogReg == ExecuteClassifier(LogRegCell(cls))

NextAnyOrder ==
    \/ ExecuteSetup
    \/ ExecuteLinearRegression
    \/ ExecuteBestSubsetEnter
    \/ BestSubsetIterate
    \/ ExecuteBestSubsetSelect
    \/ ExecuteRidge
    \/ ExecuteLasso
    \/ ExecuteElasticNet
    \/ ExecuteLar
    \/ ExecutePcaReg
    \/ ExecutePls
    \/ ExecuteClassifierSetup
    \/ ExecuteLda
    \/ ExecuteQda
    \/ ExecuteRda
    \/ ExecuteLogReg

SpecAnyOrder == InitAnyOrder /\ [][NextAnyOrder]_vars

(***************************************************************************)
(* The Docker notes: the lifecycle of containers under the commands the    *)
(* notes list.  A container is created, then started; its main process     *)
(* runs until it ends; an ended container stays, exited, until it is       *)
(* removed.                                                                *)
(***************************************************************************)
\* The command lines of the notes, as the words after "docker run".
RunBusyboxArgs == <<"busybox">>
RunEchoArgs == <<"busybox", "echo", "hello from busybox">>
RunShellArgs == <<"-it", "busybox", "sh">>
RunStaticSiteArgs == <<"-d", "-p", "8888:80", "--name", "static-site", "prakhar1989/static-site">>

\* The flags the notes explain for the website example.
ExplainedFlags == {"--rm", "-d", "-p", "--name"}

\* docker run [OPTIONS] IMAGE [COMMAND]: options come first; -p and --name
\* take the next word as their value.
TakesValue(w) == w \in {"-p", "--name"}
IsOption(w) == w \in {"--rm", "-d", "-it", "-p", "--name"}

RECURSIVE ParseRun(_, _)
ParseRun(args, opts) ==
    IF args = <<>> THEN opts
    ELSE IF IsOption(Head(args)) /\ TakesValue(Head(args))
         THEN ParseRun(Tail(Tail(args)),
                       IF Head(args) = "-p" THEN [opts EXCEPT !.publish = @ \cup {args[2]}]
                       ELSE [opts EXCEPT !.name = args[2]])
    ELSE IF IsOption(Head(args))
         THEN ParseRun(Tail(args),
                       IF Head(args) = "--rm" THEN [opts EXCEPT !.rm = TRUE]
                       ELSE IF Head(args) = "-d" THEN [opts EXCEPT !.detached = TRUE]
                       ELSE [opts EXCEPT !.interactive = TRUE])
    ELSE [opts EXCEPT !.image = Head(args), !.command = Tail(args)]

NoOptions ==
    [rm |-> FALSE, detached |-> FALSE, interactive |-> FALSE, publish |-> {},
     name |-> "", image |-> "", command |-> <<>>]

\* Every container's main process waits for a terminal unless it is the web
\* server's.
LifetimeWaits(opts) ==
    IF opts.image = "prakhar1989/static-site" THEN "server" ELSE "terminal"

\* What keeps the main process of a new container alive: a shell without a
\* terminal and a one-shot command end by themselves, an interactive shell
\* waits for its terminal, the web server runs until it is stopped.
Lifetime(opts) ==
    IF opts.image = "prakhar1989/static-site" THEN "server"
    ELSE IF opts.interactive THEN "terminal"
    ELSE "ends"

ContainerIds == 1..MaxContainers
FreeIds == ContainerIds \ {c.id : c \in containers}
NewId == CHOOSE i \in FreeIds : \A j \in FreeIds : i <= j

\* docker ps, docker ps -a, docker ps -a -q -f status=...
Ps == {c \in containers : c.status = "running"}
PsAll == containers
PsFilterStatus(status) == {c.id : c \in {d \in PsAll : d.status = status}}

\* docker run: create the container, then start it.  The create fails, and
\* nothing changes, when the name is taken; the start fails, and the
\* container stays created, when a host port to publish is in use by
\* another process (starts = FALSE).  With --rm a container whose start
\* fails is removed.
DockerRun(args, starts) ==
    LET opts == ParseRun(args, NoOptions)
        c == [id |-> NewId, opts |-> opts, lifetime |-> Lifetime(opts),
              status |-> IF starts THEN "running" ELSE "created"]
    IN  /\ terminal = "open"
        /\ FreeIds # {}
        /\ opts.name = "" \/ \A d \in containers : d.opts.name # opts.name
        /\ containers' = IF ~starts /\ opts.rm THEN containers ELSE containers \cup {c}
        /\ UNCHANGED terminal

\* The main process of a container has ended: the container is exited, or
\* removed at once when it was run with --rm.
Ended(c) ==
    IF c.opts.rm THEN containers \ {c}
    ELSE (containers \ {c}) \cup {[c EXCEPT !.status = "exited"]}

\* docker rm ids: removes the named containers that are not running.
Removable(c) == c.status # "running"
DockerRmResult(ids) == {c \in containers : ~ (c.id \in ids /\ Removable(c))}

\* docker rm $(docker ps -a -q -f status=exited)
RmExitedResult == DockerRmResult(PsFilterStatus("exited"))

\* docker container prune: removes all stopped containers, that is every
\* container that is not running, created ones included.
PruneResult == {c \in containers : c.status = "running"}

NotDocker == <<prostate_data, ns, pc, spam_txt, cls, cpc>>

RunBusybox ==
    /\ DockerRun(RunBusyboxArgs, TRUE)
    /\ UNCHANGED NotDocker

RunEcho ==
    /\ DockerRun(RunEchoArgs, TRUE)
    /\ UNCHANGED NotDocker

RunShell ==
    /\ DockerRun(RunShellArgs, TRUE)
    /\ UNCHANGED NotDocker

RunStaticSite ==
    /\ \E starts \in BOOLEAN : DockerRun(RunStaticSiteArgs, starts)
    /\ UNCHANGED NotDocker

\* The command of container i, one that ends by itself, has ended.
CommandEndsOf(i) ==
    /\ \E c \in Ps : c.id = i /\ c.lifetime = "ends" /\ containers' = Ended(c)
    /\ UNCHANGED <<terminal, NotDocker>>

\* A command that ends by itself has ended.
CommandEnds == \E i \in ContainerIds : CommandEndsOf(i)

\* "exit" typed into the interactive shell.
TypeExit ==
    /\ terminal = "open"
    /\ \E c \in Ps : c.lifetime = "terminal" /\ containers' = Ended(c)
    /\ UNCHANGED <<terminal, NotDocker>>

\* The web server's process stops (it fails, or the host shuts it down).
ServerStops ==
    /\ \E c \in Ps : c.lifetime = "server" /\ containers' = Ended(c)
    /\ UNCHANGED <<terminal, NotDocker>>

\* The terminal is closed: containers attached to it stop, detached ones
\* keep running.
RECURSIVE EndAll(_, _)
EndAll(cs, attached) ==
    IF attached = {} THEN cs
    ELSE LET c == CHOOSE x \in attached : TRUE
             rest == EndAll(cs, attached \ {c})
         IN  IF c.opts.rm THEN rest \ {c}
             ELSE (rest \ {c}) \cup {[c EXCEPT !.status = "exited"]}

CloseTerminal ==
    /\ terminal = "open"
    /\ terminal' = "closed"
    /\ containers' = EndAll(containers, {c \in Ps : ~c.opts.detached})
    /\ UNCHANGED NotDocker

OpenTerminal ==
    /\ terminal = "closed"
    /\ terminal' = "open"
    /\ UNCHANGED <<containers, NotDocker>>

DockerRm ==
    /\ terminal = "open"
    /\ \E c \in containers : Removable(c) /\ containers' = DockerRmResult({c.id})
    /\ UNCHANGED <<terminal, NotDocker>>

DockerRmExited ==
    /\ terminal = "open"
    /\ PsFilterStatus("exited") # {}
    /\ containers' = RmExitedResult
    /\ UNCHANGED <<terminal, NotDocker>>

DockerContainerPrune ==
    /\ terminal = "open"
    /\ containers' = PruneResult
    /\ UNCHANGED <<terminal, NotDocker>>

InitDocker ==
    /\ containers = {}
    /\ terminal = "open"
    /\ IdleRegression
    /\ IdleClassifier

NextDocker ==
    \/ RunBusybox
    \/ RunEcho
    \/ RunShell
    \/ RunStaticSite
    \/ CommandEnds
    \/ TypeExit
    \/ ServerStops
    \/ CloseTerminal
    \/ OpenTerminal
    \/ DockerRm
    \/ DockerRmExited
    \/ DockerContainerPrune

SpecDocker == InitDocker /\ [][NextDocker]_vars

\* The Docker notes with the progress the containers make by themselves: a
\* running command that ends by itself does end, whatever else happens.
\* Nothing else is forced: commands are typed, or not, by the user, and the
\* web server runs for as long as nothing stops it.
FairnessDocker == \A i \in ContainerIds : WF_vars(CommandEndsOf(i))

SpecDockerFair == InitDocker /\ [][NextDocker]_vars /\ FairnessDocker

(***************************************************************************)
(* Properties of the regression notebook.                                  *)
(***************************************************************************)
LoopEnded == pc \in {"bss_finish", "ridge", "lasso", "elastic_net", "LAR", "pcareg", "pls", "done"}
Selected == pc \in {"ridge", "lasso", "elastic_net", "LAR", "pcareg", "pls", "done"}

FeatureSet(row) == Range(row.cells["features"])
NonEmptySubsets(p) == (SUBSET (0..(p - 1))) \ {{}}

\* C1: the Best Subset loop gives every non-empty subset of the column
\* indices {0..p-1} exactly one row of results, with num_features its size:
\* at no time do two rows hold the same subset or a row something that is
\* not a non-empty subset listed in increasing order, and when the loop has
\* ended every non-empty subset has its row, 2^p - 1 rows in all.
C1_EverySubsetOnce ==
    \A r \in Runs :
      LET rows == ns[r].results.rows
          p == NumFeatures(ns[r])
      IN  /\ \A i \in DOMAIN rows :
                /\ FeatureSet(rows[i]) \in NonEmptySubsets(p)
                /\ Len(rows[i].cells["features"]) = Cardinality(FeatureSet(rows[i]))
                /\ rows[i].cells["num_features"] = Cardinality(FeatureSet(rows[i]))
          /\ \A i, j \in DOMAIN rows : i # j => FeatureSet(rows[i]) # FeatureSet(rows[j])
          /\ LoopEnded =>
                /\ {FeatureSet(rows[i]) : i \in DOMAIN rows} = NonEmptySubsets(p)
                /\ Len(rows) = Pow2(p) - 1

C1_Witness ==
    /\ pc = "bss_finish"
    /\ NumFeatures(ns[1]) = MaxP
    /\ Len(ns[1].results.rows) = Pow2(MaxP) - 1

\* The smallest MAE among the rows of a frame.
IsMinMAE(rows, m) ==
    /\ \E i \in DOMAIN rows : rows[i].cells["MAE"] = m
    /\ \A i \in DOMAIN rows : RatLeq(m, rows[i].cells["MAE"])

\* C2: after results.sort_values('MAE').reset_index() the rows are in
\* non-decreasing MAE order, exactly one row carries the label 0,
\* results['features'][0] is a subset whose MAE is at most the MAE of every
\* row, and the printed Best Subset Regression MAE is that minimum (rounded
\* to three decimals, as printed).
C2_SelectsMinimumMAE ==
    Selected =>
      \A r \in Runs :
        LET rows == ns[r].results.rows
            best == GetItem(ns[r].results, "features", 0)
            printed == {e \in Range(ns[r].printed) : e.what = "Best Subset Regression MAE"}
        IN  /\ \A i \in DOMAIN rows : i > 1 =>
                   RatLeq(rows[i - 1].cells["MAE"], rows[i].cells["MAE"])
            /\ Cardinality({i \in DOMAIN rows : rows[i].label = 0}) = 1
            /\ Len(best) = 1
            /\ \E i \in DOMAIN rows :
                   /\ rows[i].cells["features"] = best[1]
                   /\ IsMinMAE(rows, rows[i].cells["MAE"])
                   /\ ns[r].best_subset_model
                        = Fit(SelectColumns(ns[r].X_train, rows[i].cells["features"]),
                              ns[r].y_train)
            /\ \A e \in printed :
                   \E i \in DOMAIN rows :
                      IsMinMAE(rows, rows[i].cells["MAE"]) /\ e.value = Round3(rows[i].cells["MAE"])
            /\ printed # {}

\* A run in which the minimum is not the first subset enumerated and the
\* MAEs are not all equal.
C2_Witness ==
    /\ Selected
    /\ Len(ns[1].results.rows) >= 3
    /\ ns[1].results.rows[1].cells["features"] # <<0>>
    /\ \E i \in DOMAIN ns[1].results.rows :
          RatLess(ns[1].results.rows[1].cells["MAE"], ns[1].results.rows[i].cells["MAE"])

\* What a run reports about its fitted models.
SelectedFeatures(n) == GetItem(n.results, "features", 0)
LibraryModels(n) == {f.model : f \in n.fitted}

TrainRSS(n, subset) ==
    LET X == SelectColumns(n.X_train, subset)
    IN  RSS(Fit(X, n.y_train), X, n.y_train)

\* C4 (as claimed): the subset Best Subset Regression finally selects is
\* the smallest-RSS subset of its own size.
C4_SelectedIsSmallestRSSOfItsSize ==
    Selected =>
      LET n == ns[1]
          sel == SelectedFeatures(n)[1]
      IN  \A T \in NonEmptySubsets(NumFeatures(n)) :
             Cardinality(T) = Len(sel) => RatLeq(TrainRSS(n, sel), TrainRSS(n, SetToSeq(T)))

\* Index tuples of one length in lexicographic order.
LexLess(a, b) ==
    \E i \in DOMAIN a :
       /\ a[i] < b[i]
       /\ \A j \in 1..(i - 1) : a[j] = b[j]

\* The rows of results in the order the loop appended them (before the
\* sort): sizes 1, 2, ... in increasing order without a gap, and the
\* subsets of one size in lexicographic order of their index tuples.
VisitedInOrder(rows) ==
    /\ rows # <<>> => rows[1].cells["num_features"] = 1
    /\ \A i \in DOMAIN rows :
          rows[i].cells["num_features"] = Len(rows[i].cells["features"])
    /\ \A i \in DOMAIN rows : i > 1 =>
          LET a == rows[i - 1].cells
              b == rows[i].cells
          IN  \/ /\ a["num_features"] = b["num_features"]
                 /\ LexLess(a["features"], b["features"])
              \/ b["num_features"] = a["num_features"] + 1

InLoop == pc = "bss_loop"

\* The number of iterations the loop has still to make.
Remaining(n) == Pow2(NumFeatures(n)) - 1 - Len(n.results.rows)

\* C14: the nested loop terminates, after exactly 2^p - 1 executions of the
\* loop body: while the loop runs the number of iterations still to make is
\* positive, every iteration lowers it by one (appending one row, for a
\* subset not visited before), and the loop has ended exactly when it is
\* zero; the sizes are visited in increasing order and the subsets of a
\* size in lexicographic order; and the subsets still to be visited do not
\* depend on an iteration's outcome: two runs whose test rows, and so whose
\* MAEs, differ are at the same (k, subset) at every step.
C14_LoopTerminatesInOrder ==
    /\ [](InLoop \/ pc = "bss_finish" =>
            \A r \in Runs :
               /\ VisitedInOrder(ns[r].results.rows)
               /\ InLoop => Remaining(ns[r]) > 0
               /\ InLoop => ns[r].subset \notin
                      {ns[r].results.rows[i].cells["features"] :
                          i \in DOMAIN ns[r].results.rows}
               /\ pc = "bss_finish" => Remaining(ns[r]) = 0
               /\ ns[r].k = ns[1].k /\ ns[r].subset = ns[1].subset)
    /\ [][InLoop =>
            /\ pc' \in {"bss_loop", "bss_finish"}
            /\ \A r \in Runs :
                  /\ Remaining(ns'[r]) = Remaining(ns[r]) - 1
                  /\ ns'[r].results.rows[Len(ns'[r].results.rows)].cells["features"]
                        = ns[r].subset]_vars

\* The loop in the middle of a size greater than one, in two runs whose
\* iterations so far had different outcomes.
C14_Witness ==
    /\ InLoop
    /\ ns[1].k >= 2
    /\ ns[1].subset # FirstCombination(ns[1].k)
    /\ \E i \in DOMAIN ns[1].results.rows :
          ns[1].results.rows[i].cells["MAE"] # ns[2].results.rows[i].cells["MAE"]

(***************************************************************************)
(* Properties of the train-test split (specification SpecSplit, whose      *)
(* files have pairwise different cells, so that a row of an array          *)
(* identifies the line of the file it came from).                          *)
(***************************************************************************)
SplitDone == pc = "linreg"

FileFeatures(file, i) ==
    [c \in 1..(Len(file.columns) - 2) |-> file.rows[i][AllFeatureNames[c]]]
LinesFlagged(file, flag) == {i \in DOMAIN file.rows : file.rows[i]["train"] = flag}

\* C5: the split is decided by the train flag alone: the training set is
\* exactly the lines flagged "T", the test set exactly the lines flagged
\* "F", no line is in both, and a line with any other flag is in neither.
C5_SplitByFlagOnly ==
    SplitDone =>
      \A r \in Runs :
        LET file == prostate_data[r]
            n == ns[r]
        IN  /\ \A i \in DOMAIN file.rows :
                  LET x == FileFeatures(file, i)
                      y == file.rows[i]["lpsa"]
                      flag == file.rows[i]["train"]
                  IN  /\ (x \in Range(n.X_train)) <=> (flag = "T")
                      /\ (y \in Range(n.y_train)) <=> (flag = "T")
                      /\ (x \in Range(n.X_test)) <=> (flag = "F")
                      /\ (y \in Range(n.y_test)) <=> (flag = "F")
                      /\ ~ (x \in Range(n.X_train) /\ x \in Range(n.X_test))
                      /\ flag \notin {"T", "F"} =>
                            x \notin Range(n.X_train) \cup Range(n.X_test)
            /\ Len(n.X_train) = Cardinality(LinesFlagged(file, "T"))
            /\ Len(n.y_train) = Cardinality(LinesFlagged(file, "T"))
            /\ Len(n.X_test) = Cardinality(LinesFlagged(file, "F"))
            /\ Len(n.y_test) = Cardinality(LinesFlagged(file, "F"))

\* A split file with lines of all three kinds.
C5_Witness ==
    /\ SplitDone
    /\ LinesFlagged(prostate_data[1], "U") # {}
    /\ Len(ns[1].X_train) >= 1
    /\ Len(ns[1].X_test) >= 1
    /\ Len(ns[1].X_train) + Len(ns[1].X_test) < Len(prostate_data[1].rows)

\* C6: targets and features are kept separately but aligned: entry j of
\* y_train (y_test) is the lpsa of the same line as row j of X_train
\* (X_test), lines are in file order, and a row of X_train or X_test holds
\* the p feature cells of its line and neither its lpsa nor its flag.
Aligned(file, X, y, flag) ==
    LET lines == SetToSeq(LinesFlagged(file, flag))
    IN  /\ Len(X) = Len(lines) /\ Len(y) = Len(lines)
        /\ \A j \in DOMAIN lines :
              /\ X[j] = FileFeatures(file, lines[j])
              /\ y[j] = file.rows[lines[j]]["lpsa"]
              /\ Len(X[j]) = Len(file.columns) - 2
              /\ \A c \in DOMAIN X[j] : X[j][c] # file.rows[lines[j]]["lpsa"]

C6_FeaturesAndTargetsAligned ==
    SplitDone =>
      \A r \in Runs :
        /\ Aligned(prostate_data[r], ns[r].X_train, ns[r].y_train, "T")
        /\ Aligned(prostate_data[r], ns[r].X_test, ns[r].y_test, "F")

\* A split whose training lines are not contiguous in the file.
C6_Witness ==
    /\ SplitDone
    /\ \E i, j, l \in DOMAIN prostate_data[1].rows :
          /\ i < j /\ j < l
          /\ prostate_data[1].rows[i]["train"] = "T"
          /\ prostate_data[1].rows[j]["train"] = "F"
          /\ prostate_data[1].rows[l]["train"] = "T"
    /\ Len(ns[1].X_train) >= 2
    /\ Len(ns[1].y_test) >= 1

\* The values a run printed under a heading.
Printed(n, what) == {e.value : e \in {x \in Range(n.printed) : x.what = what}}

\* The full feature set as the loop enumerates it: [0, 1, ..., p-1].
FullSubset(p) == [j \in 1..p |-> j - 1]

\* C12: the MAE reported for Best Subset Regression (in thousandths, as
\* printed) is never larger than the MAE reported for Linear Regression on
\* the same split: the full feature set has one row of results, of size p,
\* whose MAE is the one the Linear Regression cell reported and the one the
\* last iteration left in linreg_mae, and the selected row's MAE is at most
\* that.
C12_BestSubsetNoWorseThanLinearRegression ==
    Selected =>
      \A r \in Runs :
        LET rows == ns[r].results.rows
            p == NumFeatures(ns[r])
            full == {i \in DOMAIN rows : rows[i].cells["features"] = FullSubset(p)}
            lin == Printed(ns[r], "Linear Regression MAE")
            bss == Printed(ns[r], "Best Subset Regression MAE")
        IN  /\ Cardinality(lin) = 1 /\ Cardinality(bss) = 1
            /\ \A a \in bss : \A b \in lin : a <= b
            /\ Cardinality(full) = 1
            /\ \A i \in full :
                  /\ rows[i].cells["num_features"] = p
                  /\ Round3(rows[i].cells["MAE"]) \in lin
                  /\ rows[i].cells["MAE"] = ns[r].linreg_mae
                  /\ RatLeq(GetItem(ns[r].results, "MAE", 0)[1], rows[i].cells["MAE"])

\* A run with several features in which Best Subset Regression reports a
\* strictly smaller MAE than Linear Regression.
C12_Witness ==
    /\ Selected
    /\ NumFeatures(ns[1]) >= 2
    /\ \E a \in Printed(ns[1], "Best Subset Regression MAE") :
          \E b \in Printed(ns[1], "Linear Regression MAE") : a < b

(***************************************************************************)
(* Properties of the classifier notebook (specification SpecClassifier).   *)
(***************************************************************************)
SeriesLabels(series) == [i \in DOMAIN series |-> series[i].label]
FrameLabels(df) == [i \in DOMAIN df.rows |-> df.rows[i].label]
IsInjective(s) == \A i, j \in DOMAIN s : i # j => s[i] # s[j]

\* The parts of C7 other than the size of the test set: the split is a
\* partition of the rows of spam_data, features are all columns but the
\* last and the target is the last column, features and targets use the
\* same row assignment, and every classifier fitted so far was fitted on
\* the training set and scored on the test set as they are now.
SplitIsPartition(c) ==
    LET all == {c.spam_data.rows[i].label : i \in DOMAIN c.spam_data.rows}
        tr == FrameLabels(c.X_train)
        te == FrameLabels(c.X_test)
        last == c.spam_data.columns[Len(c.spam_data.columns)]
        line(l) == c.spam_data.rows[l + 1].cells
        featuresOf(df) ==
            /\ df.columns = SubSeq(c.spam_data.columns, 1, Len(c.spam_data.columns) - 1)
            /\ \A i \in DOMAIN df.rows :
                  /\ DOMAIN df.rows[i].cells = Range(df.columns)
                  /\ \A col \in Range(df.columns) :
                        df.rows[i].cells[col] = line(df.rows[i].label)[col]
        targetsOf(series) ==
            \A i \in DOMAIN series : series[i].value = line(series[i].label)[last]
    IN  /\ IsInjective(tr) /\ IsInjective(te)
        /\ Range(tr) \cap Range(te) = {}
        /\ Range(tr) \cup Range(te) = all
        /\ featuresOf(c.X_train) /\ featuresOf(c.X_test)
        /\ targetsOf(c.y_train) /\ targetsOf(c.y_test)
        /\ SeriesLabels(c.y_train) = tr
        /\ SeriesLabels(c.y_test) = te
        /\ \A f \in c.fitted :
              /\ f.fit_X = c.X_train /\ f.fit_y = c.y_train
              /\ f.predict_X = c.X_test /\ f.score_y = c.y_test
        /\ cpc = "done" => {f.method : f \in c.fitted} = {"lda", "qda", "rda", "logreg"}

\* C7: the split is a partition, the test set holds 20% of the rows (in
\* whole rows: the least number of rows that is at least a fifth, 921 of
\* the 4601 rows of spam.txt), features are all columns but the last and
\* the target is the last column, with one row assignment for both, and all
\* four classifiers are fitted on that training set and scored on that test
\* set.
C7_PartitionWithFifthInTest ==
    cpc # "setup" =>
      /\ SplitIsPartition(cls)
      /\ 5 * Len(cls.X_test.rows) >= Len(cls.spam_data.rows)
      /\ 5 * (Len(cls.X_test.rows) - 1) < Len(cls.spam_data.rows)

\* All four classifiers fitted, on a shuffled split of a file whose number
\* of rows is not a multiple of five.
C7_Witness ==
    /\ cpc = "done"
    /\ Len(cls.spam_data.rows) % 5 # 0
    /\ Len(cls.X_train.rows) >= 2
    /\ FrameLabels(cls.X_train) # SetToSeq(Range(FrameLabels(cls.X_train)))
    /\ Cardinality(cls.fitted) = 4

\* C8 (as claimed): the shrinkage of the fitted RDA model is the candidate
\* value with the best cross-validated score among the values tried.
C8_ShrinkageChosenByCrossValidation ==
    \A f \in cls.fitted :
       f.method = "rda" =>
         /\ f.shrinkage.rule = "cross_validation"
         /\ f.shrinkage.candidates # {}

(***************************************************************************)
(* Properties of the notebooks with their cells executed in any order      *)
(* (specification SpecAnyOrder).                                           *)
(***************************************************************************)
\* The namespace right after the setup cell, computed from the file.
AfterSetup(r) == SetupCell(FreshNamespace, prostate_data[r])

SetupVariablesKept(n, s0) ==
    /\ n.data = s0.data
    /\ n.X_train = s0.X_train /\ n.y_train = s0.y_train
    /\ n.X_test = s0.X_test /\ n.y_test = s0.y_test

\* Every line printed under one heading shows the same value.
PrintsTheSame(n) ==
    \A e \in Range(n.printed) : Cardinality(Printed(n, e.what)) = 1

\* The last line printed is under the heading: its cell has just ended.
JustPrinted(n, what) ==
    n.printed # <<>> /\ n.printed[Len(n.printed)].what = what

\* The Linear Regression cell shows what it shows when run right after the
\* setup cell.
LinearRegressionAsAfterSetup(n, s0) ==
    LET lin == LinearRegressionCell(s0)
    IN  /\ Printed(n, "Linear Regression MAE") = Printed(lin, "Linear Regression MAE")
        /\ n.linreg_coefs = lin.linreg_coefs

\* The Best Subset cell leaves what it leaves when run right after the setup
\* cell: one row per non-empty subset with the MAE of that subset, and the
\* model and coefficients of the minimum-MAE row.
BestSubsetAsAfterSetup(n, s0) ==
      LET rows == n.results.rows
          best == GetItem(n.results, "features", 0)
          model == Fit(SelectColumns(s0.X_train, best[1]), s0.y_train)
      IN  /\ Len(rows) = Pow2(NumFeatures(s0)) - 1
          /\ \A i \in DOMAIN rows :
                rows[i].cells["MAE"] = SubsetScore(s0, rows[i].cells["features"]).mae
          /\ Len(best) = 1
          /\ IsMinMAE(rows, GetItem(n.results, "MAE", 0)[1])
          /\ Printed(n, "Best Subset Regression MAE")
                = {Round3(GetItem(n.results, "MAE", 0)[1])}
          /\ n.best_subset_model = model
          /\ n.best_subset_coefs = Zip(CoefNames(s0.data), RoundedCoefs(model))

\* Every library model was computed from the setup variables, so that a
\* method has one fitted model however often its cell ran.
LibraryAsAfterSetup(n, s0) ==
    /\ \A f \in n.fitted :
          /\ f.model.fit_X = s0.X_train /\ f.model.fit_y = s0.y_train
          /\ f.predict_X = s0.X_test /\ f.mae_y = s0.y_test
    /\ \A f, g \in n.fitted : f.model.method = g.model.method => f = g

\* C13: once the setup cell has run, the model cells executed in any order,
\* any number of times, leave the setup variables alone and show the same
\* metrics and coefficients: whenever a cell ends, what it printed and left
\* is what it prints and leaves when run right after the setup cell.  In
\* the classifier notebook every fitted model was fitted on the training
\* set of the split and scored on its test set, one model per method.
C13_CellsInAnyOrderPrintTheSame ==
    /\ pc \notin {"off", "setup"} =>
          \A r \in Runs :
             /\ SetupVariablesKept(ns[r], AfterSetup(r))
             /\ PrintsTheSame(ns[r])
             /\ JustPrinted(ns[r], "Linear Regression MAE") =>
                   LinearRegressionAsAfterSetup(ns[r], AfterSetup(r))
             /\ pc = "idle" /\ JustPrinted(ns[r], "Best Subset Regression MAE") =>
                   BestSubsetAsAfterSetup(ns[r], AfterSetup(r))
             /\ LibraryAsAfterSetup(ns[r], AfterSetup(r))
    /\ cpc \notin {"off", "setup"} =>
          /\ SplitIsPartition(cls)
          /\ \A f, g \in cls.fitted : f.method = g.method => f = g

\* Best Subset Regression was executed before Linear Regression (not the
\* file's order), after it had left its own last model in linreg_model.
C13_Witness ==
    /\ pc = "idle"
    /\ NumFeatures(ns[1]) >= 2
    /\ Len(ns[1].printed) = 4
    /\ ns[1].printed[3].what = "Best Subset Regression MAE"
    /\ ns[1].printed[4].what = "Linear Regression MAE"
    /\ ns[1].printed[3].value # ns[1].printed[4].value

(***************************************************************************)
(* Properties of the Docker notes (specification SpecDocker).              *)
(***************************************************************************)
\* C9 (as claimed): the two ways of deleting all exited containers are
\* equivalent: from any set of containers they leave the same containers.
C9_RmExitedEqualsPrune == RmExitedResult = PruneResult

StaticSite == {c \in containers : c.opts.image = "prakhar1989/static-site"}

\* C10 (as claimed): the container of the website example is removed as
\* soon as it exits, is detached from the terminal, has its port published
\* to the host port and carries the given name: every flag the notes
\* explain is in force.
C10_ExplainedFlagsApplied ==
    \A c \in StaticSite :
       /\ c.status # "exited"
       /\ c.opts.rm
       /\ c.opts.detached
       /\ c.opts.publish = {"8888:80"}
       /\ c.opts.name = "static-site"

\* A run of an image without a command: a container of that run.
NoCommand(c) == c.opts.command = <<>> /\ ~c.opts.interactive

RunningNoCommand(i) ==
    \E c \in containers : c.id = i /\ NoCommand(c) /\ c.status = "running"

RunningBusyboxNoCommand(i) ==
    \E c \in containers :
       c.id = i /\ NoCommand(c) /\ c.opts.image = "busybox" /\ c.status = "running"

ExitedNoCommand(i) ==
    \E c \in containers : c.id = i /\ NoCommand(c) /\ c.status = "exited"

\* An exited container is listed by docker ps -a and not by docker ps.
ExitedListedByPsAllOnly ==
    \A c \in containers : c.status = "exited" => c \in PsAll /\ c \notin Ps

\* An exited container stays listed by docker ps -a until a command deletes
\* it: docker rm, or docker container prune, which deletes it as well.
ExitedStaysUntilDeleted ==
    [][\A c \in containers :
          c.status = "exited" /\ c \notin PsAll'
             => DockerRm \/ DockerRmExited \/ DockerContainerPrune]_vars

====
